---- MODULE Spec2Model ----
(***************************************************************************)
(* DAMICORE: the Pareto front ranking (pareto.py) and the compression      *)
(* distance matrices (ncd_matrix.py, core/ncd_processor.py).               *)
(*                                                                         *)
(* Rows, items and chunks are numbered from 1 here (Python: from 0).       *)
(***************************************************************************)
EXTENDS Integers, Sequences, FiniteSets, TLC

VARIABLES
    \* ---- pareto.non_dominated_sort_fast
    pc,               \* "idle", "call", "loop", "done"
    n,                \* objs.shape[0]
    m,                \* objs.shape[1]
    objs,             \* the objective matrix: objs[p][k]
    dominates,        \* dominates[p][q], pareto.py:12
    dominated_count,  \* pareto.py:13
    current_front,    \* the list the while loop walks
    fp,               \* position of the for loop in current_front
    rank,             \* the rank vector
    i,                \* the front number
    fronts,           \* history: the fronts the for loop has walked, in order
    \* ---- the compressor, and which function is called
    zsize,            \* len(zlib.compress(s)): content |-> compressed size
    fn,               \* "pareto", "ncd_matrix_from_dataframe" or "process_dataframe"
    ncd_evaluated,    \* history: the cells <<i, j>> the compressor was called for
    zlib_calls,       \* history: content |-> how often zlib.compress was called with it
    \* ---- ncd_matrix.ncd_matrix_from_dataframe
    mpc,              \* "idle", "start", "loop", "done"
    series_list,      \* the serialized columns
    ncd_mat,          \* the matrix being filled
    mi,               \* the outer loop's i
    mj,               \* the inner loop's j
    \* ---- core.ncd_processor.NCDProcessor.process_dataframe
    ppc,              \* the caller: "idle", "start", "collect", "shutdown", "stats",
                      \* "done", "error"
    all_data,         \* self.all_data: the rows as strings
    chunk_size,       \* self.chunk_size
    n_jobs,           \* self.n_jobs
    compression_cache,\* self._compression_cache of the caller's NCDProcessor
    matrix,           \* self.matrix
    chunks,           \* the start index of each chunk, in the order of `futures`
    task,             \* per chunk: "queued", "running", "done", "failed"
    task_result,      \* per chunk: what its _process_chunk call computed
    merged,           \* how many futures the caller has merged into self.matrix
    writes,           \* history: per matrix row, the chunks whose merge assigned it
    calls,            \* how many times process_dataframe was called on this NCDProcessor
    \* ---- pareto_analysis.identificar_fronteira_pareto and calcular_hipervolume
    apc,              \* "idle", "call", "loop", "reduce", "done"
    df,               \* the objective columns of the frame: df[r][k]
    maximizar,        \* one boolean per objective
    data_values,      \* data = df[objetivos].values, minimised columns negated
    nao_dominadas,    \* one boolean per row
    ai,               \* the i of "for i in range(n_solucoes)"
    pontos,           \* the points hv_volume works on
    ponto_referencia, \* the reference point
    n_dims,           \* the n_dims of hv_volume
    volume,           \* the volume of hv_volume
    hipervolume,      \* what calcular_hipervolume returns
    \* ---- the frame handed to ncd_matrix_from_dataframe or process_dataframe, and
    \* ---- what the lines before the distance loops make of it
    spc,              \* "idle", "call", "columns", "allocated", "error"
    frame,            \* the cells of the frame: frame[c][r], column c, row r
    df_columns,       \* df.columns: the name of each column
    kept_columns,     \* df_no_empty.columns, as positions in df.columns
    col,              \* position of "for col in df_no_empty.columns" in kept_columns
    labels,           \* the label list returned with the matrix
    item_source,      \* history: per item, the name of the column or row it was made from
    \* ---- damicore_pipeline.export_columns_as_files (df is `frame`, its loop `col`)
    notebook_mode,    \* the argument notebook_mode
    exportados,       \* the list of (col, path) pairs
    files,            \* the files of outdir: path |-> lines
    file_writes,      \* history: the <<path, lines>> written, in order
    \* ---- core.community_detector.NewmanCommunityDetector.detect_communities
    cpc,              \* "idle", "call", "pairs", "partition", "done"
    distance_matrix,  \* the argument distance_matrix
    graph_nodes,      \* self.graph: its nodes
    graph_edges,      \* self.graph: <<i, j>> |-> weight
    gi,               \* the i of "for i in range(n)"
    gj,               \* the j of "for j in range(i+1, n)"
    communities       \* self.communities: node |-> community

paretoVars == <<pc, n, m, objs, dominates, dominated_count, current_front, fp, rank, i, fronts>>

compressorVars == <<zsize, fn, ncd_evaluated, zlib_calls>>

matrixVars == <<mpc, series_list, ncd_mat, mi, mj>>

procVars == <<ppc, all_data, chunk_size, n_jobs, compression_cache, matrix, chunks, task,
              task_result, merged, writes, calls>>

analysisVars == <<apc, df, maximizar, data_values, nao_dominadas, ai, pontos, ponto_referencia,
                  n_dims, volume, hipervolume>>

frameVars == <<spc, frame, df_columns, kept_columns, col, labels, item_source>>

exportVars == <<notebook_mode, exportados, files, file_writes>>

communityVars == <<cpc, distance_matrix, graph_nodes, graph_edges, gi, gj, communities>>

toolVars == <<analysisVars, frameVars, exportVars, communityVars>>

\* the variables of every function around the two engines but the ones named
toolsButAnalysis == <<frameVars, exportVars, communityVars>>

toolsButFrame == <<analysisVars, exportVars, communityVars>>

toolsButExport == <<analysisVars, communityVars>>

toolsButCommunity == <<analysisVars, frameVars, exportVars>>

vars == <<paretoVars, compressorVars, matrixVars, procVars, toolVars>>

(***************************************************************************)
(* Bounds of the model.                                                    *)
(***************************************************************************)
\* The most rows of an objective matrix.
MaxRows == 3

\* The most items (serialized columns, rows of the data frame) of a distance matrix.
MaxItems == 3

\* The largest chunk_size an NCDProcessor is built with.
MaxChunkSize == 2

\* The largest n_jobs an NCDProcessor is built with.
MaxJobs == 2

\* The most calls of process_dataframe on one NCDProcessor.
MaxCalls == 2

\* numpy's nan: every comparison with it is False.
NaN == 0 - 1

\* The values a cell of the objective matrix takes.
Values == {0, 1, NaN}

\* The numbers of objective columns.
ColCounts == {0, 1, 2}

(***************************************************************************)
(* Helpers on sets and sequences.                                          *)
(***************************************************************************)
Range(s) == {s[x] : x \in DOMAIN s}

\* The orders in which a list built from the set S can hold its elements.
Orderings(S) ==
    {s \in [1..Cardinality(S) -> S] : Range(s) = S}

\* np.where(...)[0].tolist(): the indices in ascending order.
RECURSIVE Ascending(_)
Ascending(S) ==
    IF S = {} THEN <<>>
    ELSE LET lo == CHOOSE x \in S : \A y \in S : x <= y
         IN  <<lo>> \o Ascending(S \ {lo})

(***************************************************************************)
(* Floats that are quotients of integers, kept as <<numerator, denominator>>*)
(* with a positive denominator.                                            *)
(***************************************************************************)
Frac(a, b) == <<a, b>>

\* 0.0
Zero == Frac(0, 1)

\* x + y on floats
FloatAdd(x, y) == Frac(x[1] * y[2] + y[1] * x[2], x[2] * y[2])

Min(a, b) == IF a <= b THEN a ELSE b

Max(a, b) == IF a >= b THEN a ELSE b

(***************************************************************************)
(* The items of a distance matrix and the compressor.                      *)
(***************************************************************************)
\* The serialized items: strings as sequences of characters, one character
\* standing for the text of one item; s + t is s \o t.
ItemPool == {<<"a">>, <<"b">>}

\* The sizes the compressor returns, in units of the model (zlib never
\* returns 0 bytes).
CSizes == {1, 2, 3}

\* the calls of zlib.compress with the strings of `log` added to the count
AddCalls(count, log) ==
    [s \in DOMAIN count |-> count[s] + Cardinality({k \in DOMAIN log : log[k] = s})]

ItemLists == UNION {[1..k -> ItemPool] : k \in 0..MaxItems}

\* The item lists of a first call: the compressor being any function of the
\* content, the lists that start with the other item behave the same with
\* the names of the two items exchanged.
FirstItemLists == {s \in ItemLists : s = <<>> \/ s[1] = <<"a">>}

\* No call of ncd_matrix_from_dataframe is under way.
MatrixIdle ==
    /\ mpc = "idle"
    /\ series_list = <<>>
    /\ ncd_mat = <<>>
    /\ mi = 1
    /\ mj = 1

\* No call of process_dataframe is under way.
ProcessorIdle ==
    /\ ppc = "idle"
    /\ all_data = <<>>
    /\ chunk_size = 1
    /\ n_jobs = 1
    /\ compression_cache = <<>>
    /\ matrix = <<>>
    /\ chunks = <<>>
    /\ task = <<>>
    /\ task_result = <<>>
    /\ merged = 0
    /\ writes = <<>>
    /\ calls = 0

\* No call of identificar_fronteira_pareto or calcular_hipervolume is under way.
AnalysisIdle ==
    /\ apc = "idle"
    /\ df = <<>>
    /\ maximizar = <<>>
    /\ data_values = <<>>
    /\ nao_dominadas = <<>>
    /\ ai = 1
    /\ pontos = <<>>
    /\ ponto_referencia = <<>>
    /\ n_dims = 0
    /\ volume = 1
    /\ hipervolume = 0

\* No frame is being turned into items.
FrameIdle ==
    /\ spc = "idle"
    /\ frame = <<>>
    /\ df_columns = <<>>
    /\ kept_columns = <<>>
    /\ col = 1
    /\ labels = <<>>
    /\ item_source = <<>>

\* No call of export_columns_as_files is under way.
ExportIdle ==
    /\ notebook_mode = FALSE
    /\ exportados = <<>>
    /\ files = <<>>
    /\ file_writes = <<>>

\* No call of detect_communities is under way.
CommunityIdle ==
    /\ cpc = "idle"
    /\ distance_matrix = <<>>
    /\ graph_nodes = {}
    /\ graph_edges = <<>>
    /\ gi = 1
    /\ gj = 2
    /\ communities = <<>>

\* None of the functions around the two engines is being called.
ToolsIdle == AnalysisIdle /\ FrameIdle /\ ExportIdle /\ CommunityIdle

ToolsButAnalysisIdle == FrameIdle /\ ExportIdle /\ CommunityIdle

ToolsButFrameIdle == AnalysisIdle /\ ExportIdle /\ CommunityIdle

ToolsButExportIdle == AnalysisIdle /\ CommunityIdle

ToolsButCommunityIdle == AnalysisIdle /\ FrameIdle /\ ExportIdle

(***************************************************************************)
(* pareto.py: the dominance relation, lines 10-13.                         *)
(***************************************************************************)
\* Variant of Le: the comparison turned round.
LeFlipped(a, b) == a # NaN /\ b # NaN /\ a >= b

\* a <= b on floats
Le(a, b) == a # NaN /\ b # NaN /\ a <= b

\* Variant of Lt: the comparison not strict.
LtNotStrict(a, b) == a # NaN /\ b # NaN /\ a <= b

\* a < b on floats
Lt(a, b) == a # NaN /\ b # NaN /\ a < b

\* le_matrix[p, q] = np.all(objs[p, :] <= objs[q, :])
le_matrix(o, mm, p, q) == \A k \in 1..mm : Le(o[p][k], o[q][k])

\* lt_matrix[p, q] = np.any(objs[p, :] < objs[q, :])
lt_matrix(o, mm, p, q) == \E k \in 1..mm : Lt(o[p][k], o[q][k])

\* Variant of DominatesMatrix: lt_matrix left out, ties broken by the row index.
DominatesTieByIndex(o, nn, mm) ==
    [p \in 1..nn |-> [q \in 1..nn |-> le_matrix(o, mm, p, q) /\ p < q]]

\* dominates = le_matrix & lt_matrix
DominatesMatrix(o, nn, mm) ==
    [p \in 1..nn |-> [q \in 1..nn |-> le_matrix(o, mm, p, q) /\ lt_matrix(o, mm, p, q)]]

\* Variant of DominatedCount: the sum taken along the other axis.
DominatedCountAxis1(dom, nn) ==
    [q \in 1..nn |-> Cardinality({p \in 1..nn : dom[q][p]})]

\* dominated_count = np.sum(dominates, axis=0)
DominatedCount(dom, nn) ==
    [q \in 1..nn |-> Cardinality({p \in 1..nn : dom[p][q]})]

\* Variant of FirstFront: only the first row found with count 0.
FirstFrontOnlyOne(cnt, nn) ==
    {q \in 1..nn : cnt[q] = 0 /\ \A x \in 1..(q - 1) : cnt[x] # 0}

\* np.where(dominated_count == 0)[0]
FirstFront(cnt, nn) == {q \in 1..nn : cnt[q] = 0}

\* np.where(dominates[p])[0]
DominatedBy(dom, nn, p) == {q \in 1..nn : dom[p][q]}

(***************************************************************************)
(* pareto.py: the body of the loops, lines 18-24.                          *)
(***************************************************************************)
\* Variant of Decrement: the rows that dominate p decremented, not the rows p dominates.
DecrementTransposed(cnt, dom, nn, p) ==
    [q \in 1..nn |-> IF dom[q][p] THEN cnt[q] - 1 ELSE cnt[q]]

\* for q in np.where(dominates[p])[0]: dominated_count[q] -= 1
Decrement(cnt, dom, nn, p) ==
    [q \in 1..nn |-> IF q \in DominatedBy(dom, nn, p) THEN cnt[q] - 1 ELSE cnt[q]]

\* Variant of SetRank: the fronts numbered from 0.
SetRankZeroBased(rk, p, ii) == [rk EXCEPT ![p] = ii - 1]

\* rank[p] = i
SetRank(rk, p, ii) == [rk EXCEPT ![p] = ii]

\* Variant of NextFrontSet: the test dominated_count[q] == 0 left out.
NextFrontNoCountTest(front, dom, cnt, nn) ==
    {q \in 1..nn : \E x \in DOMAIN front : q \in DominatedBy(dom, nn, front[x])}

\* set(next_front), next_front = [q for p in current_front
\*                                  for q in np.where(dominates[p])[0]
\*                                  if dominated_count[q] == 0]
NextFrontSet(front, dom, cnt, nn) ==
    {q \in 1..nn : cnt[q] = 0 /\ \E x \in DOMAIN front : q \in DominatedBy(dom, nn, front[x])}

(***************************************************************************)
(* pareto.py: the function as a whole, lines 9-25, walking every front in  *)
(* ascending order.                                                        *)
(***************************************************************************)
\* for p in current_front: ... from position pos on; the counts and ranks after it
RECURSIVE ForLoop(_, _, _, _, _, _, _)
ForLoop(front, pos, cnt, rk, dom, nn, ii) ==
    IF pos > Len(front) THEN [cnt |-> cnt, rk |-> rk]
    ELSE ForLoop(front, pos + 1, Decrement(cnt, dom, nn, front[pos]),
                 SetRank(rk, front[pos], ii), dom, nn, ii)

\* while current_front: ...; return rank
RECURSIVE WhileLoop(_, _, _, _, _, _)
WhileLoop(front, cnt, rk, dom, nn, ii) ==
    IF front = <<>> THEN rk
    ELSE LET s == ForLoop(front, 1, cnt, rk, dom, nn, ii)
         IN  WhileLoop(Ascending(NextFrontSet(front, dom, s.cnt, nn)),
                       s.cnt, s.rk, dom, nn, ii + 1)

non_dominated_sort_fast(o, nn, mm) ==
    LET dom == DominatesMatrix(o, nn, mm)
        cnt == DominatedCount(dom, nn)
    IN  WhileLoop(Ascending(FirstFront(cnt, nn)), cnt, [p \in 1..nn |-> 0], dom, nn, 1)

(***************************************************************************)
(* pareto.py: the call as a state machine.                                 *)
(***************************************************************************)
ParetoInputs ==
    /\ n \in 0..MaxRows
    /\ m \in ColCounts
    /\ objs \in [1..n -> [1..m -> Values]]

\* No call of non_dominated_sort_fast is under way.
ParetoIdle ==
    /\ pc = "idle"
    /\ n = 0
    /\ m = 0
    /\ objs = <<>>
    /\ dominates = <<>>
    /\ dominated_count = <<>>
    /\ current_front = <<>>
    /\ fp = 1
    /\ rank = <<>>
    /\ i = 0
    /\ fronts = <<>>

ParetoInit ==
    /\ pc = "call"
    /\ ParetoInputs
    /\ dominates = <<>>
    /\ dominated_count = <<>>
    /\ current_front = <<>>
    /\ fp = 1
    /\ rank = <<>>
    /\ i = 0
    /\ fronts = <<>>
    /\ fn = "pareto"
    /\ zsize = <<>>
    /\ ncd_evaluated = {}
    /\ zlib_calls = [s \in DOMAIN zsize |-> 0]
    /\ MatrixIdle
    /\ ProcessorIdle
    /\ ToolsIdle

\* lines 9-16: everything before the while loop
Call ==
    /\ pc = "call"
    /\ LET dom == DominatesMatrix(objs, n, m)
           cnt == DominatedCount(dom, n)
       IN  /\ dominates' = dom
           /\ dominated_count' = cnt
           /\ current_front' = Ascending(FirstFront(cnt, n))
    /\ rank' = [p \in 1..n |-> 0]
    /\ i' = 1
    /\ fp' = 1
    /\ pc' = "loop"
    /\ UNCHANGED <<n, m, objs, fronts, compressorVars, matrixVars, procVars, toolVars>>

\* lines 18-21: one pass of "for p in current_front"
ForBody ==
    /\ pc = "loop"
    /\ fp <= Len(current_front)
    /\ LET p == current_front[fp]
       IN  /\ rank' = SetRank(rank, p, i)
           /\ dominated_count' = Decrement(dominated_count, dominates, n, p)
    /\ fp' = fp + 1
    /\ UNCHANGED <<pc, n, m, objs, dominates, current_front, i, fronts, compressorVars, matrixVars, procVars, toolVars>>

\* lines 22-24: the next front, in whatever order list(set(...)) yields it
NextFront ==
    /\ pc = "loop"
    /\ current_front # <<>>
    /\ fp > Len(current_front)
    /\ current_front' \in Orderings(NextFrontSet(current_front, dominates, dominated_count, n))
    /\ i' = i + 1
    /\ fp' = 1
    /\ fronts' = Append(fronts, Range(current_front))
    /\ UNCHANGED <<pc, n, m, objs, dominates, dominated_count, rank, compressorVars, matrixVars, procVars, toolVars>>

\* lines 17, 25: the while test fails, return rank
Return ==
    /\ pc = "loop"
    /\ current_front = <<>>
    /\ pc' = "done"
    /\ UNCHANGED <<n, m, objs, dominates, dominated_count, current_front, fp, rank, i, fronts, compressorVars, matrixVars, procVars, toolVars>>

ParetoNext == Call \/ ForBody \/ NextFront \/ Return

Spec == ParetoInit /\ [][ParetoNext]_vars

\* The call runs as one thread of a Python interpreter that keeps executing
\* it: a step of the call that can be taken is taken.
SpecFair == ParetoInit /\ [][ParetoNext]_vars /\ WF_vars(ParetoNext)

(***************************************************************************)
(* The reference notions the properties of the ranking are stated with:    *)
(* dominance as section 4.4 defines it, on float comparisons, and the      *)
(* ranks by successive removal of the non-dominated rows.                  *)
(***************************************************************************)
Rows == 1..n

RefLe(a, b) == IF a = NaN \/ b = NaN THEN FALSE ELSE a <= b

RefLt(a, b) == IF a = NaN \/ b = NaN THEN FALSE ELSE a < b

\* row p of matrix o dominates row q
RefDominates(o, p, q) ==
    /\ \A k \in 1..m : RefLe(o[p][k], o[q][k])
    /\ \E k \in 1..m : RefLt(o[p][k], o[q][k])

\* the rows of `left` that no row of `left` dominates
RefFront(o, left) == {q \in left : ~ \E p \in left : RefDominates(o, p, q)}

RECURSIVE RefPeel(_, _, _, _)
RefPeel(o, left, k, rk) ==
    IF left = {} \/ RefFront(o, left) = {} THEN rk
    ELSE RefPeel(o, left \ RefFront(o, left), k + 1,
                 [p \in Rows |-> IF p \in RefFront(o, left) THEN k ELSE rk[p]])

RefRank(o) == RefPeel(o, Rows, 1, [p \in Rows |-> 0])

RanksUsed == {rank[p] : p \in Rows}

Done == pc = "done"

\* C1: when the call returns, every row has a rank that is an integer >= 1,
\* the ranks used are exactly 1..max_rank with no gap, and the fronts walked
\* are pairwise disjoint, cover all rows, and front k holds exactly the rows
\* of rank k.
RankPartition ==
    Done =>
        /\ \A p \in Rows : rank[p] \in Nat /\ rank[p] >= 1
        /\ RanksUsed = 1..Cardinality(RanksUsed)
        /\ Len(fronts) = Cardinality(RanksUsed)
        /\ \A k \in DOMAIN fronts : fronts[k] = {p \in Rows : rank[p] = k}
        /\ \A k, l \in DOMAIN fronts : k # l => fronts[k] \cap fronts[l] = {}
        /\ UNION {fronts[k] : k \in DOMAIN fronts} = Rows

RankPartitionWitness ==
    Done /\ n = 3 /\ RanksUsed = {1, 2} /\ Len(fronts) = 2

\* C2: when the call returns, a row that dominates another has the strictly
\* smaller rank.
DominanceMonotonicity ==
    Done => \A p, q \in Rows : RefDominates(objs, p, q) => rank[p] < rank[q]

DominanceMonotonicityWitness ==
    Done /\ \E p, q, r \in Rows :
        /\ RefDominates(objs, p, q) /\ RefDominates(objs, q, r)
        /\ rank[p] = 1 /\ rank[q] = 2 /\ rank[r] = 3

\* C3: when the call returns, the rank vector is the one successive removal
\* gives: rank 1 the rows no row dominates, rank k the rows no remaining row
\* dominates once the rows of rank < k are removed.
RankIsSuccessiveRemoval ==
    Done => rank = RefRank(objs)

RankIsSuccessiveRemovalWitness ==
    Done /\ n = 3 /\ \E p, q, r \in Rows :
        /\ p # q /\ rank[p] = 1 /\ rank[q] = 1 /\ rank[r] = 2
        /\ RefDominates(objs, p, r) /\ ~ RefDominates(objs, q, r)

\* C4: when the call returns, two rows with the same objective vector have
\* the same rank.
DuplicateRowsShareRank ==
    Done => \A p, q \in Rows : objs[p] = objs[q] => rank[p] = rank[q]

DuplicateRowsShareRankWitness ==
    Done /\ \E p, q \in Rows : p # q /\ objs[p] = objs[q] /\ rank[p] = 2 /\ m = 2

Permuted(o, perm) == [p \in Rows |-> o[perm[p]]]

\* C5: when the call returns, the rank of a row is the one it gets in every
\* permutation of the rows (row perm[p] of the input is row p of the permuted
\* input), whatever the order in which the rows of a front were walked.
RankIndependentOfRowOrder ==
    Done => \A perm \in Permutations(Rows) :
                non_dominated_sort_fast(Permuted(objs, perm), n, m) = [p \in Rows |-> rank[perm[p]]]

RankIndependentOfRowOrderWitness ==
    Done /\ n = 3 /\ rank[1] = 3 /\ rank[2] = 1 /\ rank[3] = 2

Directions == [1..m -> {"minimize", "maximize"}]

\* a == b on floats
RefEq(a, b) == IF a = NaN \/ b = NaN THEN FALSE ELSE a = b

\* rows p and q are equal (as floats) outside column k
DifferOnlyIn(p, q, k) == \A c \in 1..m : c # k => RefEq(objs[p][c], objs[q][c])

EmptyInputEmptyRanks ==
    (Done /\ (n = 0 \/ m = 0)) => rank = <<>>

\* C7 as amended: a call with zero rows or zero columns raises nothing and
\* returns a rank vector with one entry per row: the empty vector for zero
\* rows, and rank 1 for every row when there are rows but no columns.
EmptyInputRanks ==
    (n = 0 \/ m = 0) =>
        /\ pc # "done" => ENABLED ParetoNext
        /\ Done => rank = [p \in Rows |-> 1]
        /\ (Done /\ n = 0) => rank = <<>>

EmptyInputRanksWitness ==
    Done /\ m = 0 /\ n = 2 /\ rank = <<1, 1>>

\* the rows that dominate row q of the input
Dominators(q) == {p \in Rows : RefDominates(objs, p, q)}

\* C24: once the dominance relation is computed, row p is recorded as
\* dominating row q exactly when p[k] <= q[k] in every column and
\* p[k] < q[k] in some column; no row is recorded as dominating itself; and
\* before the first front is walked the domination count of q is the number
\* of rows that dominate q.
DominanceRelationAsDefined ==
    /\ pc \in {"loop", "done"} =>
           \A p, q \in Rows :
               /\ dominates[p][q] <=>
                      (/\ \A k \in 1..m : RefLe(objs[p][k], objs[q][k])
                       /\ \E k \in 1..m : RefLt(objs[p][k], objs[q][k]))
               /\ ~ dominates[p][p]
    /\ (pc = "loop" /\ i = 1 /\ fp = 1) =>
           \A q \in Rows : dominated_count[q] = Cardinality(Dominators(q))

DominanceRelationAsDefinedWitness ==
    /\ pc = "loop" /\ i = 1 /\ fp = 1 /\ n = 3 /\ m = 2
    /\ dominated_count[3] = 2 /\ dominates[1][3] /\ dominates[2][3]
    /\ ~ dominates[1][2] /\ ~ dominates[2][1] /\ objs[1] = objs[2]

\* the rows walked so far: every row of a finished front and the rows of the
\* current front before position fp
Walked ==
    UNION {fronts[k] : k \in DOMAIN fronts}
        \cup {current_front[x] : x \in {y \in DOMAIN current_front : y < fp}}

\* how often the rank of row p was written so far
RankWrites(p) ==
    Cardinality({k \in DOMAIN fronts : p \in fronts[k]})
        + Cardinality({x \in DOMAIN current_front : x < fp /\ current_front[x] = p})

\* C25: while the fronts are peeled, the count of a row is its number of
\* dominators less one for each dominator walked so far and is never
\* negative; a row is in the current front only if its count is 0 and, past
\* the first front, its last dominator was walked in the iteration before;
\* the rank of a row is written at most once, exactly once by the end, also
\* when several rows of one front dominate it, and once written never
\* changes.
PeelingBookkeeping ==
    /\ [](pc \in {"loop", "done"} =>
             /\ \A q \in Rows :
                    /\ dominated_count[q]
                           = Cardinality(Dominators(q)) - Cardinality(Dominators(q) \cap Walked)
                    /\ dominated_count[q] >= 0
                    /\ RankWrites(q) <= 1
                    /\ RankWrites(q) = 1 <=> rank[q] # 0
                    /\ Done => RankWrites(q) = 1
             /\ \A x \in DOMAIN current_front :
                    LET q == current_front[x]
                    IN  /\ dominated_count[q] = 0
                        /\ \A p \in Dominators(q) : rank[p] # 0 /\ rank[p] < i
                        /\ i > 1 => \E p \in Dominators(q) : rank[p] = i - 1
             /\ \A x, y \in DOMAIN current_front : x # y => current_front[x] # current_front[y])
    /\ [][pc = "loop" => \A q \in Rows : rank'[q] # rank[q] => (rank[q] = 0 /\ rank'[q] = i)]_vars

PeelingBookkeepingWitness ==
    /\ pc = "loop" /\ n = 3 /\ i = 2 /\ fp = 2
    /\ fronts = <<{1, 2}>> /\ current_front = <<3>>
    /\ Dominators(3) = {1, 2} /\ dominated_count[3] = 0 /\ rank = <<1, 1, 2>>

\* C26: the call returns; the while loop has run at most n times, i - 1
\* being the number of iterations finished; and when the call returns every
\* row has a rank and lies in one of the fronts walked.
PeelingTerminates ==
    /\ <>Done
    /\ [](pc \in {"loop", "done"} => (i - 1 <= n /\ Len(fronts) = i - 1))
    /\ [](Done => \A p \in Rows : rank[p] >= 1 /\ \E k \in DOMAIN fronts : p \in fronts[k])

PeelingTerminatesWitness ==
    Done /\ n = 3 /\ i = 4 /\ Len(fronts) = 3 /\ \A p \in Rows : rank[p] = p

(***************************************************************************)
(* ncd_matrix.py: ncd_matrix_from_dataframe, lines 48-62, from the         *)
(* serialized columns on.                                                  *)
(***************************************************************************)
\* The strings the compressor is defined on: every item and every
\* concatenation of two items.
MatrixContents(items) ==
    {items[x] : x \in DOMAIN items}
        \cup {items[c[1]] \o items[c[2]] : c \in (DOMAIN items) \X (DOMAIN items)}

\* def csize(s): return len(zlib.compress(s.encode('utf-8')))
csize(s) == zsize[s]

\* Variant of ncd_of: min and max exchanged.
ncd_of_min_max_swapped(c_x, c_y, c_xy) == Frac(c_xy - Max(c_x, c_y), Min(c_x, c_y))

\* Variant of ncd_of: the value clamped to [0, 1].
ncd_of_clamped(c_x, c_y, c_xy) ==
    IF c_xy < Min(c_x, c_y) THEN Zero
    ELSE IF c_xy - Min(c_x, c_y) > Max(c_x, c_y) THEN Frac(1, 1)
    ELSE Frac(c_xy - Min(c_x, c_y), Max(c_x, c_y))

\* Variant of ncd_of: divided by the range max - min.
ncd_of_range_divisor(c_x, c_y, c_xy) == Frac(c_xy - Min(c_x, c_y), Max(c_x, c_y) - Min(c_x, c_y))

\* ncd = (c_xy - min(c_x, c_y)) / max(c_x, c_y)
ncd_of(c_x, c_y, c_xy) == Frac(c_xy - Min(c_x, c_y), Max(c_x, c_y))

\* Variant of cell_value: the diagonal computed like any other cell.
cell_value_no_diagonal_case(items, a, b) ==
    ncd_of(csize(items[a]), csize(items[b]), csize(items[a] \o items[b]))

\* lines 54-61: the value stored in cell [i, j]
cell_value(items, a, b) ==
    IF a = b THEN Zero
    ELSE ncd_of(csize(items[a]), csize(items[b]), csize(items[a] \o items[b]))

\* Variant of cell_calls: the compressor called for every cell.
cell_calls_every_cell(a, b) == {<<a, b>>}

\* lines 54-59: the cells the compressor is called for while cell [i, j] is filled
cell_calls(a, b) == IF a = b THEN {} ELSE {<<a, b>>}

\* lines 57-59: the strings csize is called with while cell [i, j] is filled
cell_compressions(items, a, b) ==
    IF a = b THEN <<>> ELSE <<items[a], items[b], items[a] \o items[b]>>

MatrixInit ==
    /\ fn = "ncd_matrix_from_dataframe"
    /\ mpc = "start"
    /\ series_list \in FirstItemLists
    /\ zsize \in [MatrixContents(series_list) -> CSizes]
    /\ ncd_mat = <<>>
    /\ mi = 1
    /\ mj = 1
    /\ ncd_evaluated = {}
    /\ zlib_calls = [s \in DOMAIN zsize |-> 0]
    /\ ParetoIdle
    /\ ProcessorIdle
    /\ ToolsIdle

\* lines 48-49: n = len(series_list); ncd_mat = np.zeros((n, n))
MatrixStart ==
    /\ mpc = "start"
    /\ ncd_mat' = [a \in DOMAIN series_list |-> [b \in DOMAIN series_list |-> Zero]]
    /\ mi' = 1
    /\ mj' = 1
    /\ mpc' = "loop"
    /\ UNCHANGED <<series_list, compressorVars, paretoVars, procVars, toolVars>>

\* lines 52-61: one pass of the inner loop
MatrixCell ==
    /\ mpc = "loop"
    /\ mi <= Len(series_list)
    /\ ncd_mat' = [ncd_mat EXCEPT ![mi][mj] = cell_value(series_list, mi, mj)]
    /\ ncd_evaluated' = ncd_evaluated \cup cell_calls(mi, mj)
    /\ zlib_calls' = AddCalls(zlib_calls, cell_compressions(series_list, mi, mj))
    /\ IF mj < Len(series_list)
       THEN mj' = mj + 1 /\ mi' = mi
       ELSE mj' = 1 /\ mi' = mi + 1
    /\ UNCHANGED <<mpc, series_list, zsize, fn, paretoVars, procVars, toolVars>>

\* line 62: return ncd_mat, labels
MatrixReturn ==
    /\ mpc = "loop"
    /\ mi > Len(series_list)
    /\ mpc' = "done"
    /\ UNCHANGED <<series_list, ncd_mat, mi, mj, compressorVars, paretoVars, procVars, toolVars>>

MatrixNext == MatrixStart \/ MatrixCell \/ MatrixReturn

(***************************************************************************)
(* core/ncd_processor.py: NCDProcessor._compress_string and its lru_cache. *)
(* The cache is a list of <<content, size>> entries, least recently used   *)
(* first.  Its key is (self, s); every chunk task works on its own         *)
(* unpickled copy of self, so no entry of one task is found by another     *)
(* and each task is modelled with a cache of its own.                      *)
(***************************************************************************)
\* @lru_cache(maxsize=10000)
LruMaxSize == 10000

LruHit(lru, s) == \E k \in DOMAIN lru : lru[k][1] = s

LruEntry(lru, s) == lru[CHOOSE k \in DOMAIN lru : lru[k][1] = s]

\* a hit makes the entry the most recently used one
LruTouch(lru, s) ==
    LET Others(e) == e[1] # s
    IN  Append(SelectSeq(lru, Others), LruEntry(lru, s))

\* a miss stores the new entry and evicts the least recently used one when full
LruInsert(lru, s, v) ==
    IF Len(lru) >= LruMaxSize THEN Append(Tail(lru), <<s, v>>)
    ELSE Append(lru, <<s, v>>)

\* self._compress_string(s) in task state st: st.value is what it returns,
\* st.log the strings zlib.compress was really called with, st.reads the
\* <<content, size>> pairs of the sizes taken from a cache
compress_string(st, s) ==
    IF LruHit(st.lru, s)
    THEN [st EXCEPT !.value = LruEntry(st.lru, s)[2],
                    !.lru = LruTouch(st.lru, s),
                    !.reads = st.reads \cup {<<s, LruEntry(st.lru, s)[2]>>}]
    ELSE [st EXCEPT !.value = zsize[s],
                    !.lru = LruInsert(st.lru, s, zsize[s]),
                    !.log = Append(st.log, s)]

(***************************************************************************)
(* core/ncd_processor.py: NCDProcessor._process_chunk, lines 37-66.        *)
(* st.cc is chunk_compressions, st.cache is self._compression_cache of     *)
(* the task's copy of self, st.mat is chunk_matrix (rows numbered from 1   *)
(* within the chunk), st.cells the cells the pair compressor was called    *)
(* for.                                                                    *)
(***************************************************************************)
\* Variant of ncd_chunk: min and max exchanged.
ncd_chunk_min_max_swapped(x_compressed, y_compressed, xy_compressed) ==
    Frac(xy_compressed - Max(x_compressed, y_compressed), Min(x_compressed, y_compressed))

\* line 63
ncd_chunk(x_compressed, y_compressed, xy_compressed) ==
    Frac(xy_compressed - Min(x_compressed, y_compressed), Max(x_compressed, y_compressed))

\* lines 43-46: chunk_compressions, for the rows from row_idx on
RECURSIVE PreCompress(_, _, _, _)
PreCompress(st, data, row_idx, last) ==
    IF row_idx > last THEN st
    ELSE LET c == compress_string(st, data[row_idx])
         IN  PreCompress([c EXCEPT !.cc = (row_idx :> c.value) @@ c.cc], data, row_idx + 1, last)

\* lines 55-57: y_compressed, through self._compression_cache
CachedY(st, data, j) ==
    LET c == IF j \in DOMAIN st.cache THEN st
             ELSE LET z == compress_string(st, data[j])
                  IN  [z EXCEPT !.cache = (j :> z.value) @@ z.cache]
    IN  [c EXCEPT !.value = c.cache[j],
                  !.reads = c.reads \cup {<<data[j], c.cache[j]>>}]

\* Variant of FirstColumn: the inner loop starts on the diagonal.
FirstColumnOnDiagonal(row_idx) == row_idx

\* line 54: range(row_idx + 1, self.matrix_size) starts here
FirstColumn(row_idx) == row_idx + 1

\* lines 54-64: the inner loop of row row_idx (row i of the chunk), from column j on
RECURSIVE InnerLoop(_, _, _, _, _)
InnerLoop(st, data, ci, row_idx, j) ==
    IF j > Len(data) THEN st
    ELSE LET y  == CachedY(st, data, j)
             xy == compress_string(y, data[row_idx] \o data[j])
             v  == ncd_chunk(st.cc[row_idx], y.value, xy.value)
         IN  InnerLoop([xy EXCEPT !.mat[ci][j] = v,
                                  !.cells = xy.cells \cup {<<row_idx, j>>}],
                       data, ci, row_idx, j + 1)

\* lines 49-64: the outer loop, from row i of the chunk on
RECURSIVE OuterLoop(_, _, _, _, _)
OuterLoop(st, data, start_idx, ci, len) ==
    IF ci > len THEN st
    ELSE OuterLoop(InnerLoop(st, data, ci, start_idx + ci - 1, FirstColumn(start_idx + ci - 1)),
                   data, start_idx, ci + 1, len)

\* the rows of the chunk that starts at start_idx
ChunkLen(data, size, start_idx) == Min(size, Len(data) - start_idx + 1)

\* _process_chunk(chunk_data, start_idx) on a copy of self whose
\* _compression_cache is `cache`
process_chunk(data, size, start_idx, cache) ==
    LET len == ChunkLen(data, size, start_idx)
        st0 == [lru |-> <<>>, log |-> <<>>, value |-> 0, cc |-> <<>>, cache |-> cache,
                cells |-> {}, reads |-> {},
                mat |-> [a \in 1..len |-> [b \in 1..Len(data) |-> Zero]]]
        st1 == PreCompress(st0, data, start_idx, start_idx + len - 1)
        st2 == OuterLoop(st1, data, start_idx, 1, len)
    IN  [chunk_matrix |-> st2.mat, start_idx |-> start_idx, cells |-> st2.cells,
         log |-> st2.log, lru |-> st2.lru, cache |-> st2.cache, reads |-> st2.reads]

(***************************************************************************)
(* core/ncd_processor.py: NCDProcessor.process_dataframe, lines 68-126,    *)
(* from the rows as strings (self.all_data) on.  The chunk tasks run in    *)
(* the worker processes of the pool, at most n_jobs at a time, taken in     *)
(* the order they were submitted.                                          *)
(***************************************************************************)
\* The strings the compressor is defined on: every row and every
\* concatenation of a row with itself or a later one.
ProcessorContents(items) ==
    {items[x] : x \in DOMAIN items}
        \cup {items[c[1]] \o items[c[2]] :
                 c \in {d \in (DOMAIN items) \X (DOMAIN items) : d[1] <= d[2]}}

\* Variant of ChunkStarts: a chunk started at every row.
ChunkStartsEveryRow(len, size) == [c \in 1..len |-> c]

\* range(0, self.matrix_size, self.chunk_size), numbered from 1
ChunkStarts(len, size) ==
    [c \in 1..((len + size - 1) \div size) |-> (c - 1) * size + 1]

\* Variant of MergeRows: the chunk written from the top of the matrix.
MergeRowsAtTop(mat, res) ==
    [a \in DOMAIN mat |->
        IF a \in DOMAIN res.chunk_matrix THEN res.chunk_matrix[a] ELSE mat[a]]

\* line 109: self.matrix[start_idx:start_idx + len(chunk_matrix)] = chunk_matrix
MergeRows(mat, res) ==
    [a \in DOMAIN mat |->
        IF a >= res.start_idx /\ a < res.start_idx + Len(res.chunk_matrix)
        THEN res.chunk_matrix[a - res.start_idx + 1]
        ELSE mat[a]]

\* line 109: the rows of self.matrix the slice assignment writes
MergedRows(res) == res.start_idx .. (res.start_idx + Len(res.chunk_matrix) - 1)

\* Variant of Mirrored: the lower triangle left as it is.
MirroredNot(mat) == mat

\* line 112: self.matrix + self.matrix.T
Mirrored(mat) ==
    [a \in DOMAIN mat |-> [b \in DOMAIN mat |-> FloatAdd(mat[a][b], mat[b][a])]]

ProcessorInit ==
    /\ fn = "process_dataframe"
    /\ ppc = "start"
    /\ all_data \in FirstItemLists
    /\ chunk_size \in 1..MaxChunkSize
    /\ n_jobs \in 1..MaxJobs
    /\ zsize \in [ProcessorContents(all_data) -> CSizes]
    /\ compression_cache = <<>>
    /\ matrix = <<>>
    /\ chunks = <<>>
    /\ task = <<>>
    /\ task_result = <<>>
    /\ merged = 0
    /\ writes = <<>>
    /\ calls = 1
    /\ ncd_evaluated = {}
    /\ zlib_calls = [s \in DOMAIN zsize |-> 0]
    /\ ParetoIdle
    /\ MatrixIdle
    /\ ToolsIdle

\* lines 73-74: raise ValueError("Empty DataFrame provided")
RaiseEmpty ==
    /\ ppc = "start"
    /\ all_data = <<>>
    /\ ppc' = "error"
    /\ UNCHANGED <<all_data, chunk_size, n_jobs, compression_cache, matrix, chunks, task,
                   task_result, merged, writes, calls, compressorVars, paretoVars, matrixVars, toolVars>>

\* lines 88-104: the zero matrix, the chunks, one task submitted per chunk
Submit ==
    /\ ppc = "start"
    /\ all_data # <<>>
    /\ matrix' = [a \in DOMAIN all_data |-> [b \in DOMAIN all_data |-> Zero]]
    /\ chunks' = ChunkStarts(Len(all_data), chunk_size)
    /\ task' = [c \in DOMAIN chunks' |-> "queued"]
    /\ task_result' = [c \in DOMAIN chunks' |-> <<>>]
    /\ merged' = 0
    /\ writes' = [a \in DOMAIN all_data |-> <<>>]
    /\ ppc' = "collect"
    /\ UNCHANGED <<all_data, chunk_size, n_jobs, compression_cache, calls, compressorVars,
                   paretoVars, matrixVars, toolVars>>

\* the executor is alive: the caller is inside the with block of line 101 or
\* in its exit, executor.shutdown(wait=True)
PoolOpen == ppc \in {"collect", "shutdown"}

\* Variant of CacheAfterTask: the task's dictionary is the caller's.
CacheAfterTaskShared(cache, res) == res.cache

\* line 104: the task ran on a pickled copy of self, in a worker process;
\* what it stored in its _compression_cache is dropped with the copy
CacheAfterTask(cache, res) == cache

\* a free worker takes the oldest queued task
TaskStart(c) ==
    /\ PoolOpen
    /\ task[c] = "queued"
    /\ \A d \in 1..(c - 1) : task[d] # "queued"
    /\ Cardinality({d \in DOMAIN task : task[d] = "running"}) < n_jobs
    /\ task' = [task EXCEPT ![c] = "running"]
    /\ UNCHANGED <<ppc, all_data, chunk_size, n_jobs, compression_cache, matrix, chunks,
                   task_result, merged, writes, calls, compressorVars, paretoVars, matrixVars, toolVars>>

\* the worker runs _process_chunk on its copy of self and sends the result back
TaskFinish(c) ==
    /\ PoolOpen
    /\ task[c] = "running"
    /\ LET res == process_chunk(all_data, chunk_size, chunks[c], compression_cache)
       IN  /\ task_result' = [task_result EXCEPT ![c] = res]
           /\ ncd_evaluated' = ncd_evaluated \cup res.cells
           /\ zlib_calls' = AddCalls(zlib_calls, res.log)
           /\ compression_cache' = CacheAfterTask(compression_cache, res)
    /\ task' = [task EXCEPT ![c] = "done"]
    /\ UNCHANGED <<ppc, all_data, chunk_size, n_jobs, matrix, chunks,
                   merged, writes, calls, zsize, fn, paretoVars, matrixVars, toolVars>>

\* lines 107-109: future.result() of the next future, merged into self.matrix
Merge ==
    /\ ppc = "collect"
    /\ merged < Len(chunks)
    /\ task[merged + 1] = "done"
    /\ matrix' = MergeRows(matrix, task_result[merged + 1])
    /\ writes' = [a \in DOMAIN writes |->
                      IF a \in MergedRows(task_result[merged + 1])
                      THEN Append(writes[a], merged + 1) ELSE writes[a]]
    /\ merged' = merged + 1
    /\ UNCHANGED <<ppc, all_data, chunk_size, n_jobs, compression_cache, chunks, task,
                   task_result, calls, compressorVars, paretoVars, matrixVars, toolVars>>

\* Variant of AllMerged: the loop over the futures stops one short.
AllMergedButLast == merged >= Len(chunks) - 1

\* line 107: the for loop over the futures has taken every result
AllMerged == merged = Len(chunks)

\* line 112, after the with block: mirror the matrix
Mirror ==
    /\ ppc = "collect"
    /\ AllMerged
    /\ matrix' = Mirrored(matrix)
    /\ ppc' = "stats"
    /\ UNCHANGED <<all_data, chunk_size, n_jobs, compression_cache, chunks, task,
                   task_result, merged, writes, calls, compressorVars, paretoVars, matrixVars, toolVars>>

\* lines 114-126: the statistics, return self.matrix, self.labels
ProcessorReturn ==
    /\ ppc = "stats"
    /\ ppc' = "done"
    /\ UNCHANGED <<all_data, chunk_size, n_jobs, compression_cache, matrix, chunks, task,
                   task_result, merged, writes, calls, compressorVars, paretoVars, matrixVars, toolVars>>

ProcessorNext ==
    \/ RaiseEmpty
    \/ Submit
    \/ \E c \in DOMAIN task : TaskStart(c)
    \/ \E c \in DOMAIN task : TaskFinish(c)
    \/ Merge
    \/ Mirror
    \/ ProcessorReturn

(***************************************************************************)
(* The distance engine: one call of either function.                       *)
(***************************************************************************)
NcdInit == MatrixInit \/ ProcessorInit

NcdNext == MatrixNext \/ ProcessorNext

SpecNcd == NcdInit /\ [][NcdNext]_vars

(***************************************************************************)
(* The life of one NCDProcessor: process_dataframe called again and again  *)
(* on the same object, with a compressor whose calls may raise (encode's   *)
(* UnicodeEncodeError, a MemoryError).  An exception in a chunk task is    *)
(* kept in its future;                                                     *)
(* future.result() raises it again in the caller, line 108, which leaves   *)
(* the with block of line 101 through executor.shutdown(wait=True): the    *)
(* pool goes on running the tasks it was given, and the caller gets the    *)
(* exception when the last of them has ended.                              *)
(***************************************************************************)
\* every item and every concatenation of two items
PoolContents == ItemPool \cup {x[1] \o x[2] : x \in ItemPool \X ItemPool}

\* the compressors of these runs: any size for an item, one size for the
\* concatenations
LifecycleCompressors ==
    {f \in [PoolContents -> CSizes] : \A s \in PoolContents : Len(s) > 1 => f[s] = 3}

LifecycleInit ==
    /\ fn = "process_dataframe"
    /\ ppc = "start"
    /\ all_data \in FirstItemLists
    /\ chunk_size \in 1..MaxChunkSize
    /\ n_jobs \in 1..MaxJobs
    /\ zsize \in LifecycleCompressors
    /\ compression_cache = <<>>
    /\ matrix = <<>>
    /\ chunks = <<>>
    /\ task = <<>>
    /\ task_result = <<>>
    /\ merged = 0
    /\ writes = <<>>
    /\ calls = 1
    /\ ncd_evaluated = {}
    /\ zlib_calls = [s \in DOMAIN zsize |-> 0]
    /\ ParetoIdle
    /\ MatrixIdle
    /\ ToolsIdle

\* a call of _compress_string in _process_chunk raises: the task ends with
\* the exception, which is set on its future
TaskFail(c) ==
    /\ PoolOpen
    /\ task[c] = "running"
    /\ task' = [task EXCEPT ![c] = "failed"]
    /\ UNCHANGED <<ppc, all_data, chunk_size, n_jobs, compression_cache, matrix, chunks,
                   task_result, merged, writes, calls, compressorVars, paretoVars, matrixVars, toolVars>>

\* line 108: future.result() raises the exception of the task; the caller
\* leaves the for loop and enters the exit of the with block
ResultRaises ==
    /\ ppc = "collect"
    /\ merged < Len(chunks)
    /\ task[merged + 1] = "failed"
    /\ ppc' = "shutdown"
    /\ UNCHANGED <<all_data, chunk_size, n_jobs, compression_cache, matrix, chunks, task,
                   task_result, merged, writes, calls, compressorVars, paretoVars, matrixVars, toolVars>>

\* line 101: shutdown(wait=True) returns when no task is queued or running;
\* the exception leaves process_dataframe
Propagate ==
    /\ ppc = "shutdown"
    /\ \A c \in DOMAIN task : task[c] \in {"done", "failed"}
    /\ ppc' = "error"
    /\ UNCHANGED <<all_data, chunk_size, n_jobs, compression_cache, matrix, chunks, task,
                   task_result, merged, writes, calls, compressorVars, paretoVars, matrixVars, toolVars>>

\* process_dataframe(df) called again on the same NCDProcessor: the locals
\* are new, the attributes are the ones the last call left
CallAgain ==
    /\ ppc \in {"done", "error"}
    /\ calls < MaxCalls
    /\ calls' = calls + 1
    /\ all_data' \in ItemLists
    /\ ppc' = "start"
    /\ chunks' = <<>>
    /\ task' = <<>>
    /\ task_result' = <<>>
    /\ merged' = 0
    /\ writes' = <<>>
    /\ ncd_evaluated' = {}
    /\ zlib_calls' = [s \in DOMAIN zsize |-> 0]
    /\ UNCHANGED <<chunk_size, n_jobs, compression_cache, matrix, zsize, fn,
                   paretoVars, matrixVars, toolVars>>

LifecycleNext ==
    \/ ProcessorNext
    \/ \E c \in DOMAIN task : TaskFail(c)
    \/ ResultRaises
    \/ Propagate
    \/ CallAgain

SpecLifecycle == LifecycleInit /\ [][LifecycleNext]_vars

(***************************************************************************)
(* Properties of the distance matrices.                                    *)
(***************************************************************************)
MatrixReturned == fn = "ncd_matrix_from_dataframe" /\ mpc = "done"

ProcessorReturned == fn = "process_dataframe" /\ ppc = "done"

\* the items of the call and the matrix it returns
DistItems == IF fn = "process_dataframe" THEN all_data ELSE series_list

DistMatrix == IF fn = "process_dataframe" THEN matrix ELSE ncd_mat

Cells == DOMAIN DistItems

\* NCD(x, y) = (C(xy) - min(C(x), C(y))) / max(C(x), C(y)) of items a and b,
\* on the compressor itself
RefNcd(a, b) ==
    Frac(zsize[DistItems[a] \o DistItems[b]] - Min(zsize[DistItems[a]], zsize[DistItems[b]]),
         Max(zsize[DistItems[a]], zsize[DistItems[b]]))

\* x == y on floats
FloatEq(x, y) == x[1] * y[2] = y[1] * x[2]

\* C8: the matrix ncd_matrix_from_dataframe returns is symmetric:
\* M[i][j] == M[j][i] for all i, j.
MatrixSymmetric ==
    MatrixReturned => \A a, b \in Cells : FloatEq(ncd_mat[a][b], ncd_mat[b][a])

\* C9: in the matrix either function returns every diagonal entry is 0, and
\* at no time has the compressor been called for a diagonal cell.
ZeroDiagonal ==
    /\ \A a \in Cells : <<a, a>> \notin ncd_evaluated
    /\ (MatrixReturned \/ ProcessorReturned) =>
           \A a \in Cells : DistMatrix[a][a] = Zero

ZeroDiagonalWitness ==
    /\ ProcessorReturned
    /\ Len(all_data) = 3
    /\ Len(chunks) = 2
    /\ ncd_evaluated = {<<1, 2>>, <<1, 3>>, <<2, 3>>}
    /\ zsize[all_data[1] \o all_data[1]] # zsize[all_data[1]]

\* C10: in the matrix either function returns, the entry M[i][j] of every
\* pair i < j is (C(s_i s_j) - min(C(s_i), C(s_j))) / max(C(s_i), C(s_j)),
\* numerator and denominator as computed, also when it lies outside [0, 1].
UpperEntriesAreNcd ==
    (MatrixReturned \/ ProcessorReturned) =>
        \A a, b \in Cells : a < b => DistMatrix[a][b] = RefNcd(a, b)

\* a returned matrix with an entry above 1 that was merged from the second chunk
UpperEntriesAreNcdWitness ==
    /\ ProcessorReturned
    /\ Len(all_data) = 3
    /\ chunk_size = 1
    /\ matrix[2][3][1] > matrix[2][3][2]
    /\ matrix[1][3][1] < matrix[1][3][2]

\* C11: every entry of the matrix either function returns is non-negative.
NonNegativeEntries ==
    (MatrixReturned \/ ProcessorReturned) =>
        \A a, b \in Cells : DistMatrix[a][b][1] >= 0

\* what process_dataframe returns for `data` when one chunk holds every row
OneChunk(data) == process_chunk(data, Len(data), 1, <<>>)

\* row `row` of the upper triangle as the items and the compressor alone give it
UpperRow(row) ==
    [b \in Cells |-> IF b > row THEN RefNcd(row, b) ELSE Zero]

\* C12: the matrix process_dataframe returns is the same for every
\* chunk_size, every n_jobs and every order in which the chunk tasks run and
\* finish (it is the matrix of the single-chunk computation), and the rows a
\* chunk task has computed are given by the items and the compressor alone,
\* whichever other tasks ran before it.
ChunkingAndSchedulingInvisible ==
    /\ ProcessorReturned =>
           LET one == OneChunk(all_data).chunk_matrix
           IN  matrix = [a \in Cells |-> [b \in Cells |-> FloatAdd(one[a][b], one[b][a])]]
    /\ fn = "process_dataframe" =>
           \A c \in DOMAIN task : task[c] = "done" =>
               \A r \in DOMAIN task_result[c].chunk_matrix :
                   task_result[c].chunk_matrix[r] = UpperRow(chunks[c] + r - 1)

\* three chunks on two workers, returned, with two different distances
ChunkingAndSchedulingInvisibleWitness ==
    /\ ProcessorReturned
    /\ Len(chunks) = 3
    /\ n_jobs = 2
    /\ matrix[1][2] # matrix[2][3]
    /\ matrix[1][3] # Zero

\* the rows of chunk c
Band(c) == chunks[c] .. (chunks[c] + ChunkLen(all_data, chunk_size, chunks[c]) - 1)

\* the unordered pairs of items
UpperPairs == {d \in Cells \X Cells : d[1] < d[2]}

\* C13: the chunks of process_dataframe are bands of consecutive rows, one
\* after the other, every row in exactly one of them; every pair i < j is
\* computed by exactly one chunk task (the one that holds row i); no row of
\* the matrix is assigned by more than one merge, and when the mirror step has
\* run every row has been assigned by exactly one merge, once.
ChunksPartitionTheWork ==
    (fn = "process_dataframe" /\ ppc \in {"collect", "shutdown", "stats", "done"}) =>
        /\ \A a \in Cells : Cardinality({c \in DOMAIN chunks : a \in Band(c)}) = 1
        /\ \A c \in DOMAIN chunks :
               /\ Band(c) # {}
               /\ c > 1 => chunks[c] = chunks[c - 1] + Cardinality(Band(c - 1))
        /\ \A c \in DOMAIN task : task[c] = "done" =>
               /\ task_result[c].cells = {d \in UpperPairs : d[1] \in Band(c)}
               /\ \A d \in DOMAIN task : (d # c /\ task[d] = "done") =>
                      task_result[c].cells \cap task_result[d].cells = {}
        /\ \A a \in Cells : Len(writes[a]) <= 1
        /\ ppc \in {"stats", "done"} =>
               /\ \A a \in Cells : Len(writes[a]) = 1 /\ a \in Band(writes[a][1])
               /\ ncd_evaluated = UpperPairs

\* three rows in two chunks, mirrored and returned
ChunksPartitionTheWorkWitness ==
    /\ ProcessorReturned
    /\ chunk_size = 2
    /\ writes = <<<<1>>, <<1>>, <<2>>>>
    /\ task_result[1].cells = {<<1, 2>>, <<1, 3>>, <<2, 3>>}
    /\ task_result[2].cells = {}

\* C14: process_dataframe mirrors the matrix, and returns it, only when every
\* chunk task has ended well and its rows have been merged: in every state
\* after the mirror step no future is left out, every row has been assigned
\* by the merge of its chunk, and the matrix returned holds, above the
\* diagonal, what the chunk tasks computed.
MirrorAfterJoin ==
    (fn = "process_dataframe" /\ ppc \in {"stats", "done"}) =>
        /\ merged = Len(chunks)
        /\ \A c \in DOMAIN task :
               /\ task[c] = "done"
               /\ \A a \in Band(c) :
                      /\ writes[a] = <<c>>
                      /\ \A b \in Cells : b > a =>
                             matrix[a][b] = task_result[c].chunk_matrix[a - chunks[c] + 1][b]

\* the second call on an NCDProcessor returns the matrix of three chunks
MirrorAfterJoinWitness ==
    /\ ProcessorReturned
    /\ calls = 2
    /\ Len(chunks) = 3
    /\ n_jobs = 2
    /\ merged = 3

\* C15: when a chunk task fails, process_dataframe returns no matrix, and once
\* the caller has met the failure no task that is still queued is started:
\* the outstanding tasks are cancelled and do not run.
FailureAbortsAndCancels ==
    /\ [](((fn = "process_dataframe") /\ (\E c \in DOMAIN task : task[c] = "failed"))
             => ppc \notin {"stats", "done"})
    /\ [][ppc = "shutdown" =>
             \A d \in DOMAIN task : task[d] = "queued" => task'[d] = "queued"]_vars

\* C16: neither function returns a matrix of fewer than 2 items.
AtLeastTwoItems ==
    (MatrixReturned \/ ProcessorReturned) => Len(DistItems) >= 2

CompressedOncePerItem ==
    fn \in {"ncd_matrix_from_dataframe", "process_dataframe"} =>
        \A a \in Cells : zlib_calls[DistItems[a]] <= 1

\* C19: the lru_cache of _compress_string, as a chunk task leaves it, holds
\* the contents of items only, never the concatenation of a pair.
PairsNeverCached ==
    fn = "process_dataframe" =>
        \A c \in DOMAIN task : task[c] = "done" =>
            \A k \in DOMAIN task_result[c].lru :
                task_result[c].lru[k][1] \in Range(all_data)

\* every size a finished chunk task took from a cache is the compressor's
\* size of the content it was used for
CacheReadsAreRight ==
    \A c \in DOMAIN task : task[c] = "done" =>
        \A r \in task_result[c].reads : r[2] = zsize[r[1]]

\* an entry of _compression_cache stands for a content: two items with the
\* same content have one entry between them
EntriesByContent ==
    \A c \in DOMAIN task : task[c] = "done" =>
        \A j, k \in DOMAIN task_result[c].cache :
            all_data[j] = all_data[k] => j = k

\* C20: every size NCDProcessor reads from the lru_cache of _compress_string
\* or from _compression_cache is the compressor's size of the content of the
\* item it is used for, in every call of process_dataframe on the same
\* NCDProcessor and whatever tasks ran before, and the entries of the caches
\* are identified by content, not by item index.
CachesKeyedByContent ==
    fn = "process_dataframe" => (CacheReadsAreRight /\ EntriesByContent)

(***************************************************************************)
(* pareto_analysis.py: identificar_fronteira_pareto, lines 11-49.          *)
(***************************************************************************)
\* The objective values of a frame: the finite ones are even, so that the
\* negative of a value is never the number NaN is written as.
FrameValues == {0, 2, NaN}

\* -x on floats
Negate(x) == IF x = NaN THEN NaN ELSE 0 - x

\* lines 33-35: data[:, i] = -data[:, i] for the objectives to be minimised
NegateMinimized(d, mx) ==
    [r \in DOMAIN d |-> [k \in DOMAIN mx |-> IF mx[k] THEN d[r][k] ELSE Negate(d[r][k])]]

\* lines 44, 46: dominadas = np.all(data <= data[i], axis=1); dominadas[i] = False
Dominadas(d, nobj, row) ==
    [j \in DOMAIN d |-> j # row /\ \A k \in 1..nobj : Le(d[j][k], d[row][k])]

\* line 47: nao_dominadas[dominadas] = False
MarkDominated(nd, dom) == [j \in DOMAIN nd |-> nd[j] /\ ~ dom[j]]

\* df[nao_dominadas]: the rows returned
Fronteira == {r \in DOMAIN nao_dominadas : nao_dominadas[r]}

\* No call of calcular_hipervolume is under way.
HvIdle ==
    /\ pontos = <<>>
    /\ ponto_referencia = <<>>
    /\ n_dims = 0
    /\ volume = 1
    /\ hipervolume = 0

FrontInit ==
    /\ apc = "call"
    /\ fn = "identificar_fronteira_pareto"
    /\ \E nobj \in ColCounts :
           /\ maximizar \in [1..nobj -> BOOLEAN]
           /\ df \in UNION {[1..r -> [1..nobj -> FrameValues]] : r \in 0..MaxRows}
    /\ data_values = <<>>
    /\ nao_dominadas = <<>>
    /\ ai = 1
    /\ HvIdle
    /\ zsize = <<>>
    /\ ncd_evaluated = {}
    /\ zlib_calls = [s \in DOMAIN zsize |-> 0]
    /\ ParetoIdle
    /\ MatrixIdle
    /\ ProcessorIdle
    /\ ToolsButAnalysisIdle

\* lines 25-38: everything before the loop over the solutions
FrontCall ==
    /\ apc = "call"
    /\ fn = "identificar_fronteira_pareto"
    /\ data_values' = NegateMinimized(df, maximizar)
    /\ nao_dominadas' = [r \in DOMAIN df |-> TRUE]
    /\ ai' = 1
    /\ apc' = "loop"
    /\ UNCHANGED <<df, maximizar, pontos, ponto_referencia, n_dims, volume, hipervolume,
                   paretoVars, compressorVars, matrixVars, procVars,
                   toolsButAnalysis>>

\* lines 41-47: one pass of "for i in range(n_solucoes)"
FrontStep ==
    /\ apc = "loop"
    /\ ai <= Len(data_values)
    /\ nao_dominadas' =
           IF nao_dominadas[ai]
           THEN MarkDominated(nao_dominadas, Dominadas(data_values, Len(maximizar), ai))
           ELSE nao_dominadas
    /\ ai' = ai + 1
    /\ UNCHANGED <<apc, df, maximizar, data_values, pontos, ponto_referencia, n_dims, volume,
                   hipervolume, paretoVars, compressorVars, matrixVars, procVars,
                   toolsButAnalysis>>

\* line 49: return df[nao_dominadas].copy()
FrontReturn ==
    /\ apc = "loop"
    /\ ai > Len(data_values)
    /\ apc' = "done"
    /\ UNCHANGED <<df, maximizar, data_values, nao_dominadas, ai, pontos, ponto_referencia,
                   n_dims, volume, hipervolume, paretoVars, compressorVars, matrixVars, procVars,
                   toolsButAnalysis>>

FrontNext == FrontCall \/ FrontStep \/ FrontReturn

(***************************************************************************)
(* pareto_analysis.py: calcular_hipervolume, lines 52-93.                  *)
(***************************************************************************)
\* The coordinates of the points, the numbers of dimensions, and the
\* coordinate a reference point has in every dimension.
PointCoords == {0, 1}

Dims == {1, 2, 3, 4}

RefCoords == {1, 2}

\* pontos[idx], idx = np.argsort(pontos[:, 0]): the points in ascending order
\* of the first coordinate; the default sort is not stable, so that points
\* which agree there come in any order.
SortedByFirst(pts) ==
    {[x \in DOMAIN pts |-> pts[perm[x]]] : perm \in
        {q \in Permutations(DOMAIN pts) :
            \A x, y \in DOMAIN pts : x < y => pts[q[x]][1] <= pts[q[y]][1]}}

\* pontos[:-1, :-1]
DropLastPointAndColumn(pts) ==
    [x \in 1..(Len(pts) - 1) |-> SubSeq(pts[x], 1, Len(pts[x]) - 1)]

\* sum(... for i in range(len(pontos))), line 82-86
RECURSIVE SumOfRectangles(_, _, _)
SumOfRectangles(pts, ref, k) ==
    IF k > Len(pts) THEN 0
    ELSE (ref[1] - pts[k][1]) * (ref[2] - pts[k][2]) + SumOfRectangles(pts, ref, k + 1)

HvInit ==
    /\ apc = "call"
    /\ fn = "calcular_hipervolume"
    /\ \E d \in Dims :
           /\ df \in UNION {[1..r -> [1..d -> PointCoords]] : r \in 0..MaxRows}
           /\ ponto_referencia \in {[k \in 1..d |-> c] : c \in RefCoords}
    /\ pontos = df
    /\ maximizar = <<>>
    /\ data_values = <<>>
    /\ nao_dominadas = <<>>
    /\ ai = 1
    /\ n_dims = 0
    /\ volume = 1
    /\ hipervolume = 0
    /\ zsize = <<>>
    /\ ncd_evaluated = {}
    /\ zlib_calls = [s \in DOMAIN zsize |-> 0]
    /\ ParetoIdle
    /\ MatrixIdle
    /\ ProcessorIdle
    /\ ToolsButAnalysisIdle

\* lines 63-64: no point, return 0.0
HvEmpty ==
    /\ apc = "call"
    /\ fn = "calcular_hipervolume"
    /\ Len(pontos) = 0
    /\ hipervolume' = 0
    /\ apc' = "done"
    /\ UNCHANGED <<df, maximizar, data_values, nao_dominadas, ai, pontos, ponto_referencia,
                   n_dims, volume, paretoVars, compressorVars, matrixVars, procVars,
                   toolsButAnalysis>>

\* lines 67-72, 93: sort by the first coordinate and call hv_volume(pontos, n_dims, 1.0, 0)
HvSort ==
    /\ apc = "call"
    /\ fn = "calcular_hipervolume"
    /\ Len(pontos) > 0
    /\ pontos' \in SortedByFirst(pontos)
    /\ n_dims' = Len(pontos[1])
    /\ volume' = 1
    /\ apc' = "reduce"
    /\ UNCHANGED <<df, maximizar, data_values, nao_dominadas, ai, ponto_referencia,
                   hipervolume, paretoVars, compressorVars, matrixVars, procVars,
                   toolsButAnalysis>>

\* lines 87-91: more than two dimensions left
HvReduce ==
    /\ apc = "reduce"
    /\ n_dims > 2
    /\ Len(pontos) > 0
    /\ volume' = volume * (ponto_referencia[Len(ponto_referencia)]
                               - pontos[Len(pontos)][Len(pontos[Len(pontos)])])
    /\ pontos' = DropLastPointAndColumn(pontos)
    /\ n_dims' = n_dims - 1
    /\ UNCHANGED <<apc, df, maximizar, data_values, nao_dominadas, ai, ponto_referencia,
                   hipervolume, paretoVars, compressorVars, matrixVars, procVars,
                   toolsButAnalysis>>

\* line 89 with no point left: pontos[-1, -1] raises IndexError
HvIndexError ==
    /\ apc = "reduce"
    /\ n_dims > 2
    /\ Len(pontos) = 0
    /\ apc' = "error"
    /\ UNCHANGED <<df, maximizar, data_values, nao_dominadas, ai, pontos, ponto_referencia,
                   n_dims, volume, hipervolume, paretoVars, compressorVars, matrixVars,
                   procVars,
                   toolsButAnalysis>>

\* lines 77-86: one or two dimensions left
HvReturn ==
    /\ apc = "reduce"
    /\ n_dims <= 2
    /\ hipervolume' =
           IF n_dims = 1
           THEN volume * (ponto_referencia[1] - pontos[Len(pontos)][1])
           ELSE volume * SumOfRectangles(pontos, ponto_referencia, 1)
    /\ apc' = "done"
    /\ UNCHANGED <<df, maximizar, data_values, nao_dominadas, ai, pontos, ponto_referencia,
                   n_dims, volume, paretoVars, compressorVars, matrixVars, procVars,
                   toolsButAnalysis>>

HvNext == HvEmpty \/ HvSort \/ HvReduce \/ HvIndexError \/ HvReturn

AnalysisInit == FrontInit \/ HvInit

AnalysisNext ==
    FrontCall \/ FrontStep \/ FrontReturn \/ HvEmpty \/ HvSort \/ HvReduce \/ HvIndexError
        \/ HvReturn

SpecAnalysis == AnalysisInit /\ [][AnalysisNext]_vars

(***************************************************************************)
(* Properties of the Pareto frontier and of the hypervolume.               *)
(***************************************************************************)
FrontReturned == fn = "identificar_fronteira_pareto" /\ apc = "done"

\* row p of the frame is at least as good as row r on objective k
AtLeastAsGood(p, r, k) ==
    IF maximizar[k] THEN RefLe(df[r][k], df[p][k]) ELSE RefLe(df[p][k], df[r][k])

\* row p of the frame is strictly better than row r on objective k
StrictlyBetter(p, r, k) ==
    IF maximizar[k] THEN RefLt(df[r][k], df[p][k]) ELSE RefLt(df[p][k], df[r][k])

\* row p of the frame dominates row r under the directions given
FrameDominates(p, r) ==
    /\ \A k \in DOMAIN maximizar : AtLeastAsGood(p, r, k)
    /\ \E k \in DOMAIN maximizar : StrictlyBetter(p, r, k)

NonDominated == {r \in DOMAIN df : ~ \E p \in DOMAIN df \ {r} : FrameDominates(p, r)}

\* C27: when identificar_fronteira_pareto returns, a row of the frame is in
\* the result exactly when no other row is at least as good on every
\* objective and strictly better on one, the directions being the ones
\* given; in particular non-dominated rows with identical values are all
\* in the result.
FrontierIsNonDominatedSet ==
    FrontReturned => Fronteira = NonDominated

\* What the code does return: no dominated row, and of the non-dominated
\* rows the first of each group of rows with the same values.
FrontierKeepsFirstOfEqualRows ==
    FrontReturned =>
        /\ Fronteira \subseteq NonDominated
        /\ \A r \in NonDominated :
               r \in Fronteira <=>
                   ~ \E p \in 1..(r - 1) : \A k \in DOMAIN maximizar : RefEq(df[p][k], df[r][k])

HvReturned == fn = "calcular_hipervolume" /\ apc = "done"

\* The unit cells of the grid, each named by its lowest corner: with the
\* points on the grid PointCoords, no cell below the reference point has a
\* corner outside it.
UnitCells == [DOMAIN ponto_referencia -> PointCoords]

\* cell c lies in the box spanned by point p and the reference point
InBox(c, p) ==
    \A k \in DOMAIN ponto_referencia : p[k] <= c[k] /\ c[k] + 1 <= ponto_referencia[k]

\* the measure of the union of the boxes spanned by the points given and the
\* reference point
UnionOfBoxes ==
    Cardinality({c \in UnitCells : \E x \in DOMAIN df : InBox(c, df[x])})

\* C28: calcular_hipervolume returns, and what it returns is the measure of
\* the union of the boxes spanned by each point and the reference point, a
\* region that lies in several boxes counted once; for no point it is 0.
HypervolumeIsUnionMeasure ==
    fn = "calcular_hipervolume" =>
        /\ apc # "error"
        /\ apc = "done" => hipervolume = UnionOfBoxes

\* Where the value returned is the measure: for no point, and for one point
\* in one or two dimensions.
HypervolumeOfOnePoint ==
    (HvReturned /\ Len(df) <= 1 /\ Len(ponto_referencia) <= 2) => hipervolume = UnionOfBoxes

(***************************************************************************)
(* The frame a distance function is called with. A cell is <<kind, vals>>:  *)
(* vals holds the numbers the cell can stand for once reduced.              *)
(*   "missing"       NaN or None                                            *)
(*   "number"        the number in vals                                     *)
(*   "numeric_text"  the text of the number in vals, as '1'                 *)
(*   "word"          a text that is no number, as 'abc'                     *)
(*   "blank"         a text of white space only, or ''                      *)
(*   "nan_text"      the text 'nan'                                         *)
(*   "list"          a list or tuple whose first element is the number      *)
(*   "empty_list"    []                                                     *)
(*   "dict"          a dict whose first value is the number                 *)
(*   "list_text"     the text of a list literal, first element the number   *)
(*   "set_text"      the text of a set literal of numeric texts, as         *)
(*                   "{'1', '2'}"                                           *)
(*   "bad_literal"   a text that starts with '[' and is no literal          *)
(***************************************************************************)
Cell(kind, vals) == <<kind, vals>>

CellPool ==
    {Cell("missing", {}), Cell("number", {1}), Cell("number", {2}),
     Cell("numeric_text", {1}), Cell("word", {}), Cell("blank", {}), Cell("nan_text", {}),
     Cell("list", {2}), Cell("empty_list", {}), Cell("dict", {1}), Cell("list_text", {2}),
     Cell("set_text", {1, 2}), Cell("bad_literal", {})}

\* the cells of the frames with two columns
SmallCellPool == {Cell("missing", {}), Cell("number", {1}), Cell("word", {})}

ColumnNames == <<"x", "y">>

\* df.index: the name of each row
RowNames == <<"r1", "r2", "r3", "r4", "r5">>

\* The frames of up to `rows` rows: no column, one column of any cells, two
\* columns of the cells of SmallCellPool.
Frames(rows) ==
    UNION {{<<>>} \cup {<<c>> : c \in [1..r -> CellPool]}
               \cup {<<c, d>> : c \in [1..r -> SmallCellPool], d \in [1..r -> SmallCellPool]} :
           r \in 0..rows}

\* len(df)
FrameRows(f) == IF f = <<>> THEN 0 ELSE Len(f[1])

\* ','.join(parts)
RECURSIVE Join(_)
Join(parts) ==
    IF parts = <<>> THEN <<>>
    ELSE IF Len(parts) = 1 THEN <<parts[1]>>
    ELSE <<parts[1], ",">> \o Join(Tail(parts))

\* str(x) of the float x
FloatText(x) == CASE x = 1 -> "1.0" [] x = 2 -> "2.0" [] OTHER -> "nan"

\* str(x) of the int x
IntText(x) == CASE x = 1 -> "1" [] x = 2 -> "2" [] OTHER -> "?"

(***************************************************************************)
(* ncd_matrix.py: the serializer of ncd_matrix_from_dataframe, lines 10-49. *)
(***************************************************************************)
\* to_simple(cell), lines 10-27: the values it can return. next(iter(...)) of
\* a set of strings is the element the hash seed of the process puts first.
to_simple(cell) ==
    CASE cell[1] \in {"list", "dict", "list_text"} -> {Cell("number", {v}) : v \in cell[2]}
      [] cell[1] = "set_text" -> {Cell("numeric_text", {v}) : v \in cell[2]}
      [] cell[1] = "empty_list" -> {Cell("blank", {})}
      [] OTHER -> {cell}

\* df.dropna(axis=1, how='all'), line 29: the columns with a cell that is not missing
df_no_empty(f) == {c \in DOMAIN f : \E r \in DOMAIN f[c] : f[c][r][1] # "missing"}

\* df_no_empty[col].dropna(), line 33
DropMissing(cells) == SelectSeq(cells, LAMBDA c : c[1] # "missing")

\* col_data.apply(to_simple), line 33: the columns it can give
ApplyToSimple(cells) ==
    {s \in [DOMAIN cells -> UNION {to_simple(cells[x]) : x \in DOMAIN cells}] :
        \A x \in DOMAIN cells : s[x] \in to_simple(cells[x])}

\* col_data[col_data.astype(str).str.strip() != ''], line 34
DropBlank(cells) == SelectSeq(cells, LAMBDA c : c[1] # "blank")

\* try_float(x), lines 36-40: the float, or NaN for None and for float('nan')
try_float(c) ==
    IF c[1] \in {"number", "numeric_text"} THEN CHOOSE v \in c[2] : TRUE ELSE NaN

\* col_data.apply(try_float).dropna(), line 41
ApplyTryFloat(cells) ==
    SelectSeq([x \in DOMAIN cells |-> try_float(cells[x])], LAMBDA v : v # NaN)

\* Variant of TooFew: a column of two values rejected as well.
TooFewAtMostTwo(nums) == Len(nums) <= 2

\* len(col_data_num) < 2, line 42
TooFew(nums) == Len(nums) < 2

\* ','.join(str(x) for x in col_data_num), line 45
Serialize(nums) == Join([x \in DOMAIN nums |-> FloatText(nums[x])])

\* col_data_num of lines 33-41: the lists of floats a column can give
ColumnNumbers(cells) ==
    {ApplyTryFloat(DropBlank(s)) : s \in ApplyToSimple(DropMissing(cells))}

FrameInit ==
    /\ spc = "call"
    /\ fn \in {"ncd_matrix_from_dataframe", "process_dataframe"}
    /\ frame \in Frames(MaxRows)
    /\ df_columns = SubSeq(ColumnNames, 1, Len(frame))
    /\ kept_columns = <<>>
    /\ col = 1
    /\ labels = <<>>
    /\ item_source = <<>>
    /\ zsize = <<>>
    /\ ncd_evaluated = {}
    /\ zlib_calls = [s \in DOMAIN zsize |-> 0]
    /\ ParetoIdle
    /\ MatrixIdle
    /\ ProcessorIdle
    /\ ToolsButFrameIdle

\* lines 29-31: drop the columns with no value, start with no item and no label
SerStart ==
    /\ spc = "call"
    /\ fn = "ncd_matrix_from_dataframe"
    /\ kept_columns' = Ascending(df_no_empty(frame))
    /\ col' = 1
    /\ series_list' = <<>>
    /\ labels' = <<>>
    /\ spc' = "columns"
    /\ UNCHANGED <<frame, df_columns, item_source, mpc, ncd_mat, mi, mj, paretoVars,
                   compressorVars, procVars, toolsButFrame>>

\* lines 32-47: one pass of "for col in df_no_empty.columns"
SerColumn ==
    /\ spc = "columns"
    /\ fn = "ncd_matrix_from_dataframe"
    /\ col <= Len(kept_columns)
    /\ \E nums \in ColumnNumbers(frame[kept_columns[col]]) :
           IF TooFew(nums)
           THEN UNCHANGED <<series_list, labels, item_source>>
           ELSE /\ series_list' = Append(series_list, Serialize(nums))
                /\ labels' = Append(labels, df_columns[kept_columns[col]])
                /\ item_source' = Append(item_source, df_columns[kept_columns[col]])
    /\ col' = col + 1
    /\ UNCHANGED <<spc, frame, df_columns, kept_columns, mpc, ncd_mat, mi, mj, paretoVars,
                   compressorVars, procVars, toolsButFrame>>

\* lines 48-49: n = len(series_list), ncd_mat = np.zeros((n, n))
SerAlloc ==
    /\ spc = "columns"
    /\ fn = "ncd_matrix_from_dataframe"
    /\ col > Len(kept_columns)
    /\ ncd_mat' = [a \in DOMAIN series_list |-> [b \in DOMAIN series_list |-> Zero]]
    /\ spc' = "allocated"
    /\ UNCHANGED <<frame, df_columns, kept_columns, col, labels, item_source, mpc, series_list,
                   mi, mj, paretoVars, compressorVars, procVars, toolsButFrame>>

(***************************************************************************)
(* core/ncd_processor.py: process_dataframe up to the allocation of the    *)
(* matrix, lines 73-93.                                                    *)
(***************************************************************************)
\* the dtype of a column is float64: numbers with a missing value among them
IsFloatColumn(cells) ==
    /\ \A r \in DOMAIN cells : cells[r][1] \in {"number", "missing"}
    /\ \E r \in DOMAIN cells : cells[r][1] = "missing"

\* x.astype(str), line 84, cell r of a column
AsTypeStr(cells, r) ==
    LET c == cells[r]
    IN  CASE c[1] = "missing" -> "nan"
          [] c[1] = "number" ->
                 IF IsFloatColumn(cells) THEN FloatText(CHOOSE v \in c[2] : TRUE)
                 ELSE IntText(CHOOSE v \in c[2] : TRUE)
          [] c[1] = "numeric_text" -> IntText(CHOOSE v \in c[2] : TRUE)
          [] c[1] = "word" -> "abc"
          [] c[1] = "blank" -> " "
          [] c[1] = "nan_text" -> "nan"
          [] c[1] = "list" -> "[2, 1]"
          [] c[1] = "empty_list" -> "[]"
          [] c[1] = "dict" -> "{'k': 1}"
          [] c[1] = "list_text" -> "[2, 1]"
          [] c[1] = "set_text" -> "{'1', '2'}"
          [] OTHER -> "["

\* [','.join(row) for row in zip(*string_cols)], line 87
RowStrings(f) ==
    [r \in 1..FrameRows(f) |-> Join([c \in DOMAIN f |-> AsTypeStr(f[c], r)])]

\* lines 73-74: df.empty, raise ValueError
ConvEmpty ==
    /\ spc = "call"
    /\ fn = "process_dataframe"
    /\ (Len(frame) = 0 \/ FrameRows(frame) = 0)
    /\ spc' = "error"
    /\ UNCHANGED <<frame, df_columns, kept_columns, col, labels, item_source, paretoVars,
                   compressorVars, matrixVars, procVars, toolsButFrame>>

\* lines 78-93: the labels, the items, the matrix of zeros
ConvItems ==
    /\ spc = "call"
    /\ fn = "process_dataframe"
    /\ ~ (Len(frame) = 0 \/ FrameRows(frame) = 0)
    /\ labels' = df_columns
    /\ all_data' = RowStrings(frame)
    /\ item_source' = SubSeq(RowNames, 1, FrameRows(frame))
    /\ matrix' = [a \in 1..FrameRows(frame) |-> [b \in 1..FrameRows(frame) |-> Zero]]
    /\ spc' = "allocated"
    /\ UNCHANGED <<frame, df_columns, kept_columns, col, ppc, chunk_size, n_jobs,
                   compression_cache, chunks, task, task_result, merged, writes, calls,
                   paretoVars, compressorVars, matrixVars, toolsButFrame>>

FrameNext == SerStart \/ SerColumn \/ SerAlloc \/ ConvEmpty \/ ConvItems

SpecFrame == FrameInit /\ [][FrameNext]_vars

(***************************************************************************)
(* Properties of the items and labels made of a frame.                     *)
(***************************************************************************)
Allocated == spc = "allocated"

\* the matrix the call has allocated
AllocatedMatrix == IF fn = "ncd_matrix_from_dataframe" THEN ncd_mat ELSE matrix

\* C21: once the matrix is allocated, of either distance function, the label
\* list has as many entries as the matrix has rows and columns, and label k
\* is the name of the column or row of the frame that item k was made from.
LabelsNameTheItems ==
    Allocated =>
        /\ \A k \in DOMAIN AllocatedMatrix : Len(AllocatedMatrix[k]) = Len(AllocatedMatrix)
        /\ Len(labels) = Len(AllocatedMatrix)
        /\ \A k \in DOMAIN labels : labels[k] = item_source[k]

\* The same of ncd_matrix_from_dataframe alone, where it holds.
ColumnLabelsNameTheItems ==
    (Allocated /\ fn = "ncd_matrix_from_dataframe") =>
        /\ \A k \in DOMAIN ncd_mat : Len(ncd_mat[k]) = Len(ncd_mat)
        /\ Len(labels) = Len(ncd_mat)
        /\ Len(series_list) = Len(ncd_mat)
        /\ \A k \in DOMAIN labels : labels[k] = item_source[k]

\* the cell stands for a number once reduced: a number, the text of one, or
\* a list, dict or literal whose representative is one
IsNumericCell(c) ==
    c[1] \in {"number", "numeric_text", "list", "dict", "list_text", "set_text"}

\* how many cells of the column stand for a number
NumericCount(cells) == Cardinality({r \in DOMAIN cells : IsNumericCell(cells[r])})

\* the names of the columns with at least two numeric values, in frame order
ColumnsWithTwoValues ==
    LET keep == {c \in DOMAIN frame : NumericCount(frame[c]) >= 2}
    IN  [x \in DOMAIN Ascending(keep) |-> df_columns[Ascending(keep)[x]]]

\* C22: ncd_matrix_from_dataframe never stops on a column: it raises nothing,
\* visits every column that has a value, and ends with exactly the columns of
\* at least two numeric values as items and labels, in the order of the
\* frame; a column with fewer is in neither list.
ColumnsWithTooFewValuesSkipped ==
    fn = "ncd_matrix_from_dataframe" =>
        /\ spc # "error"
        /\ spc \in {"call", "columns"} => ENABLED FrameNext
        /\ Allocated =>
               /\ col = Len(kept_columns) + 1
               /\ labels = ColumnsWithTwoValues
               /\ Len(series_list) = Len(labels)

ColumnsWithTooFewValuesSkippedWitness ==
    /\ Allocated /\ fn = "ncd_matrix_from_dataframe"
    /\ Len(frame) = 2 /\ kept_columns = <<1, 2>>
    /\ NumericCount(frame[1]) = 1 /\ NumericCount(frame[2]) = 2
    /\ labels = <<"y">> /\ series_list = <<<<"1.0", ",", "1.0">>>>

\* the number a numeric cell stands for
RefValue(c) == CHOOSE v \in c[2] : TRUE

\* the text of the numeric values of a column, in row order, joined by commas
RefSerialize(cells) ==
    LET numeric == SelectSeq(cells, LAMBDA c : IsNumericCell(c))
    IN  Join([x \in DOMAIN numeric |-> FloatText(RefValue(numeric[x]))])

\* the position in the frame of the column named
ColumnOf(name) == CHOOSE c \in DOMAIN df_columns : df_columns[c] = name

\* C23: the string of every kept column is the comma-joined text of exactly
\* its numeric values in row order, every other value dropped, none moved or
\* repeated; it is a function of the cells of the column alone.
SerializedInRowOrder ==
    (fn = "ncd_matrix_from_dataframe" /\ spc \in {"columns", "allocated"}) =>
        \A k \in DOMAIN series_list :
            series_list[k] = RefSerialize(frame[ColumnOf(labels[k])])

\* The same of the columns with no cell that is the text of a set, where it
\* holds.
SerializedInRowOrderWithoutSets ==
    (fn = "ncd_matrix_from_dataframe" /\ spc \in {"columns", "allocated"}) =>
        \A k \in DOMAIN series_list :
            LET cells == frame[ColumnOf(labels[k])]
            IN  (\A r \in DOMAIN cells : cells[r][1] # "set_text") =>
                    series_list[k] = RefSerialize(cells)

(***************************************************************************)
(* damicore_pipeline.py: export_columns_as_files, lines 7-79.              *)
(***************************************************************************)
\* The names the columns of a frame have: two different names can be paths
\* to one file of outdir.
ExportColumnNames == {<<>>, <<"x">>, <<"x", "y">>, <<"x", "./x">>}

\* the file of outdir that os.path.join(outdir, str(col)) names
FileNamed(name) == IF name = "./x" THEN "x" ELSE name

\* the file f of outdir written with `lines`
WriteFile(fs, f, lines) ==
    [g \in DOMAIN fs \cup {f} |-> IF g = f THEN lines ELSE fs[g]]

\* df.select_dtypes(include=['number']), line 63: the dtype of the column is a
\* number dtype, its cells being numbers and missing values
IsNumberDtype(cells) ==
    cells # <<>> /\ \A r \in DOMAIN cells : cells[r][1] \in {"number", "missing"}

\* num_df of lines 63-64: number columns with a cell that is not missing
num_df(f) == {c \in df_no_empty(f) : IsNumberDtype(f[c])}

\* str(v) for v in num_df[col].dropna(), lines 67, 73-74
NumberLines(cells) ==
    LET col_data == DropMissing(cells)
    IN  [x \in DOMAIN col_data |->
            IF IsFloatColumn(cells) THEN FloatText(CHOOSE v \in col_data[x][2] : TRUE)
            ELSE IntText(CHOOSE v \in col_data[x][2] : TRUE)]

\* str(v) for v in col_data_num, lines 43-52, 58-59: the lines a column can give
NotebookLines(cells) ==
    {[x \in DOMAIN nums |-> FloatText(nums[x])] : nums \in ColumnNumbers(cells)}

\* Variant of FewerThanTwoExported: one exported column is enough.
FewerThanOneExported(exp) == Len(exp) < 1

\* len(exportados) < 2, line 77
FewerThanTwoExported(exp) == Len(exp) < 2

ExportInit ==
    /\ spc = "call"
    /\ fn = "export_columns_as_files"
    /\ notebook_mode \in BOOLEAN
    /\ frame \in Frames(MaxRows)
    /\ df_columns \in {s \in ExportColumnNames : Len(s) = Len(frame)}
    /\ kept_columns = <<>>
    /\ col = 1
    /\ labels = <<>>
    /\ item_source = <<>>
    /\ exportados = <<>>
    /\ files = <<>>
    /\ file_writes = <<>>
    /\ zsize = <<>>
    /\ ncd_evaluated = {}
    /\ zlib_calls = [s \in DOMAIN zsize |-> 0]
    /\ ParetoIdle
    /\ MatrixIdle
    /\ ProcessorIdle
    /\ ToolsButExportIdle

\* lines 13-14 and 40 or 63-64: no column exported yet, the columns to walk
ExpStart ==
    /\ spc = "call"
    /\ fn = "export_columns_as_files"
    /\ exportados' = <<>>
    /\ kept_columns' = IF notebook_mode THEN Ascending(df_no_empty(frame))
                       ELSE Ascending(num_df(frame))
    /\ col' = 1
    /\ spc' = "columns"
    /\ UNCHANGED <<frame, df_columns, labels, item_source, notebook_mode, files, file_writes,
                   paretoVars, compressorVars, matrixVars, procVars, toolsButExport>>

\* lines 42-61 or 66-76: one pass of the loop over the columns
ExpColumn ==
    /\ spc = "columns"
    /\ fn = "export_columns_as_files"
    /\ col <= Len(kept_columns)
    /\ LET c == kept_columns[col]
           name == df_columns[c]
       IN  \E lines \in (IF notebook_mode THEN NotebookLines(frame[c])
                         ELSE {NumberLines(frame[c])}) :
               IF TooFew(lines)
               THEN UNCHANGED <<exportados, files, file_writes>>
               ELSE /\ files' = WriteFile(files, FileNamed(name), lines)
                    /\ file_writes' = Append(file_writes, <<FileNamed(name), lines>>)
                    /\ exportados' = Append(exportados, <<name, name>>)
    /\ col' = col + 1
    /\ UNCHANGED <<spc, frame, df_columns, kept_columns, labels, item_source, notebook_mode,
                   paretoVars, compressorVars, matrixVars, procVars, toolsButExport>>

\* lines 77-78: raise RuntimeError
ExpRaise ==
    /\ spc = "columns"
    /\ fn = "export_columns_as_files"
    /\ col > Len(kept_columns)
    /\ FewerThanTwoExported(exportados)
    /\ spc' = "error"
    /\ UNCHANGED <<frame, df_columns, kept_columns, col, labels, item_source, exportVars,
                   paretoVars, compressorVars, matrixVars, procVars, toolsButExport>>

\* line 79: the function returns
ExpReturn ==
    /\ spc = "columns"
    /\ fn = "export_columns_as_files"
    /\ col > Len(kept_columns)
    /\ ~ FewerThanTwoExported(exportados)
    /\ spc' = "done"
    /\ UNCHANGED <<frame, df_columns, kept_columns, col, labels, item_source, exportVars,
                   paretoVars, compressorVars, matrixVars, procVars, toolsButExport>>

ExportNext == ExpStart \/ ExpColumn \/ ExpRaise \/ ExpReturn

SpecExport == ExportInit /\ [][ExportNext]_vars

(***************************************************************************)
(* Properties of the export of the columns.                                *)
(***************************************************************************)
\* column c of the frame has at least two usable values: in notebook mode two
\* cells that stand for a number, otherwise a column of numbers with two of
\* them not missing
UsableColumn(c) ==
    IF notebook_mode THEN NumericCount(frame[c]) >= 2
    ELSE /\ \A r \in DOMAIN frame[c] : frame[c][r][1] \in {"number", "missing"}
         /\ Cardinality({r \in DOMAIN frame[c] : frame[c][r][1] = "number"}) >= 2

\* the names of the usable columns, in frame order
UsableColumnNames ==
    LET keep == {c \in DOMAIN frame : UsableColumn(c)}
    IN  [x \in DOMAIN Ascending(keep) |-> df_columns[Ascending(keep)[x]]]

ReturnLeavesTwoFiles ==
    (fn = "export_columns_as_files" /\ spc = "done") => Cardinality(DOMAIN files) >= 2

(***************************************************************************)
(* core/community_detector.py: detect_communities, lines 14-44.            *)
(***************************************************************************)
\* The distances of a matrix handed to the detector: 0, 1/2, 1 and, as the
\* distance functions can return them, a negative one.
Distances == {Frac(0, 1), Frac(1, 2), Frac(1, 1), Frac(0 - 1, 2)}

\* The square matrices of up to MaxItems items, symmetric with 0 on the
\* diagonal.
DistanceMatrices ==
    UNION {{[a \in 1..k |-> [b \in 1..k |->
                IF a = b THEN Zero ELSE IF a < b THEN u[<<a, b>>] ELSE u[<<b, a>>]]] :
               u \in [{p \in (1..k) \X (1..k) : p[1] < p[2]} -> Distances]} : k \in 0..MaxItems}

\* x > 0 on floats
Positive(x) == x[1] > 0

\* 1 - x on floats
OneMinus(x) == Frac(x[2] - x[1], x[2])

\* self.graph.add_edge(i, j, weight=similarity): the nodes and the edges after it
AddEdgeNodes(nodes, a, b) == nodes \cup {a, b}

AddEdgeEdges(edges, a, b, w) ==
    [e \in DOMAIN edges \cup {<<a, b>>} |-> IF e = <<a, b>> THEN w ELSE edges[e]]

\* The numbers of the communities: two are enough to tell nodes apart.
CommunityIds == {0, 1}

\* community.best_partition(graph): a community for every node of the graph,
\* whichever the library finds
best_partition(nodes) == [nodes -> CommunityIds]

CommunityInit ==
    /\ cpc = "call"
    /\ fn = "detect_communities"
    /\ distance_matrix \in DistanceMatrices
    /\ graph_nodes = {}
    /\ graph_edges = <<>>
    /\ gi = 1
    /\ gj = 2
    /\ communities = <<>>
    /\ zsize = <<>>
    /\ ncd_evaluated = {}
    /\ zlib_calls = [s \in DOMAIN zsize |-> 0]
    /\ ParetoIdle
    /\ MatrixIdle
    /\ ProcessorIdle
    /\ ToolsButCommunityIdle

\* lines 25-30: an empty graph, the loops start
ComStart ==
    /\ cpc = "call"
    /\ graph_nodes' = {}
    /\ graph_edges' = <<>>
    /\ gi' = 1
    /\ gj' = 2
    /\ cpc' = "pairs"
    /\ UNCHANGED <<distance_matrix, communities, paretoVars, compressorVars, matrixVars,
                   procVars, toolsButCommunity>>

\* lines 31-35: one pass of "for j in range(i+1, n)"
ComPair ==
    /\ cpc = "pairs"
    /\ gi <= Len(distance_matrix)
    /\ gj <= Len(distance_matrix)
    /\ IF Positive(distance_matrix[gi][gj])
       THEN /\ graph_nodes' = AddEdgeNodes(graph_nodes, gi, gj)
            /\ graph_edges' = AddEdgeEdges(graph_edges, gi, gj, OneMinus(distance_matrix[gi][gj]))
       ELSE UNCHANGED <<graph_nodes, graph_edges>>
    /\ gj' = gj + 1
    /\ UNCHANGED <<cpc, distance_matrix, gi, communities, paretoVars, compressorVars,
                   matrixVars, procVars, toolsButCommunity>>

\* line 30: the inner loop is over, the next i
ComNextRow ==
    /\ cpc = "pairs"
    /\ gi <= Len(distance_matrix)
    /\ gj > Len(distance_matrix)
    /\ gi' = gi + 1
    /\ gj' = gi + 2
    /\ UNCHANGED <<cpc, distance_matrix, graph_nodes, graph_edges, communities, paretoVars,
                   compressorVars, matrixVars, procVars, toolsButCommunity>>

\* line 38: self.communities = community.best_partition(self.graph)
ComPartition ==
    /\ cpc = "pairs"
    /\ gi > Len(distance_matrix)
    /\ communities' \in best_partition(graph_nodes)
    /\ cpc' = "partition"
    /\ UNCHANGED <<distance_matrix, graph_nodes, graph_edges, gi, gj, paretoVars,
                   compressorVars, matrixVars, procVars, toolsButCommunity>>

\* lines 42-44: the metrics, return self.communities
ComReturn ==
    /\ cpc = "partition"
    /\ cpc' = "done"
    /\ UNCHANGED <<distance_matrix, graph_nodes, graph_edges, gi, gj, communities, paretoVars,
                   compressorVars, matrixVars, procVars, toolsButCommunity>>

CommunityNext == ComStart \/ ComPair \/ ComNextRow \/ ComPartition \/ ComReturn

SpecCommunity == CommunityInit /\ [][CommunityNext]_vars

(***************************************************************************)
(* Properties of the graph of the items.                                   *)
(***************************************************************************)
Items == 1..Len(distance_matrix)

\* C30: when detect_communities has built its graph, every item of the
\* matrix is a node of it and every pair i < j an edge of weight
\* 1 - distance, and the mapping returned gives every item a community,
\* the items at distance 0 from all others included.
EveryItemInGraphAndCommunity ==
    /\ cpc \in {"partition", "done"} =>
           /\ graph_nodes = Items
           /\ DOMAIN graph_edges = {<<a, b>> \in Items \X Items : a < b}
           /\ \A e \in DOMAIN graph_edges :
                  FloatEq(FloatAdd(graph_edges[e], distance_matrix[e[1]][e[2]]), Frac(1, 1))
    /\ cpc = "done" => DOMAIN communities = Items

\* What the graph does hold: the pairs at a distance above 0, with weight
\* 1 - distance, and the items of those pairs; the mapping covers them only.
GraphOfPositiveDistances ==
    /\ cpc \in {"partition", "done"} =>
           /\ DOMAIN graph_edges
                  = {<<a, b>> \in Items \X Items : a < b /\ Positive(distance_matrix[a][b])}
           /\ graph_nodes = {a \in Items : \E b \in Items : Positive(distance_matrix[a][b])}
           /\ \A e \in DOMAIN graph_edges :
                  FloatEq(FloatAdd(graph_edges[e], distance_matrix[e[1]][e[2]]), Frac(1, 1))
    /\ cpc = "done" => DOMAIN communities = graph_nodes

====
